---- MODULE Spec2Model ----
(***************************************************************************)
(* Last-Mile Delivery Analytics Dashboard (src/app.py).                    *)
(*                                                                         *)
(* One Streamlit script run is main(): load_and_clean_data (cached), the   *)
(* five sidebar multiselects, the filter cascade, the KPIs, the aggregates *)
(* behind the charts and the CSV export.  The first run uses the widgets'  *)
(* defaults; every widget change reruns main() with the cached dataset.    *)
(*                                                                         *)
(* Numbers are exact: a mean is kept as the pair (sum, n) and compared by  *)
(* cross-multiplication, so floating-point rounding is not modelled.       *)
(* Series.fillna(..., inplace=True) on df[col] is modelled as writing      *)
(* through to df, which is what pandas does without copy-on-write.         *)
(***************************************************************************)
EXTENDS Integers, Sequences, FiniteSets, TLC

VARIABLES
    raw,            \* the spreadsheet at file_path: headers and rows, or absent
    pc,             \* "start" | "shown" | "stopped"
    error,          \* what st.error reported before st.stop
    df,             \* the cached cleaned dataset (sequence of records)
    late_threshold, \* mean + std of delivery_time, as returned by the loader
    shapes,         \* <<original row count, cleaned row count>>
    selected,       \* dimension -> the multiselect's current value
    df_filtered,    \* the filtered dataset of the last run
    kpi,            \* the four st.metric values of the last run
    charts,         \* weather_agg, traffic_agg, vehicle_agg, agent_count, value_counts
    all_df          \* the exported table of the last run

vars == <<raw, pc, error, df, late_threshold, shapes, selected, df_filtered,
          kpi, charts, all_df>>

----------------------------------------------------------------------------
(* Cell values *)

\* np.nan in a numeric column
NaN == -1
\* a text cell in a numeric column, which pd.to_numeric(errors='coerce') cannot parse
BadText == -2
\* np.nan in a text column
NA == "<NA>"

required_cols == <<"delivery_time", "traffic", "weather", "vehicle",
                   "agent_age", "agent_rating", "area", "category">>

categorical_cols == <<"traffic", "weather", "vehicle", "area", "category">>

Range(s) == {s[i] : i \in DOMAIN s}

----------------------------------------------------------------------------
(* Schema resolution: lines 72-102 *)

\* df.columns.str.strip().str.replace(' ', '_') on the headers the model uses
StandardizeHeader(h) ==
    CASE h = "Delivery Time"     -> "Delivery_Time"
      [] h = " Time "            -> "Time"
      [] h = "Traffic Condition" -> "Traffic_Condition"
      [] h = "Agent Age "        -> "Agent_Age"
      [] OTHER                   -> h

column_mapping ==
    [delivery_time |-> {"Delivery_Time", "delivery_time", "Time", "DeliveryTime"},
     traffic       |-> {"Traffic", "traffic", "Traffic_Condition"},
     weather       |-> {"Weather", "weather", "Weather_Condition"},
     vehicle       |-> {"Vehicle", "vehicle", "Vehicle_Type"},
     agent_age     |-> {"Agent_Age", "agent_age", "Age"},
     agent_rating  |-> {"Agent_Rating", "agent_rating", "Rating"},
     area          |-> {"Area", "area", "Location", "Region"},
     category      |-> {"Category", "category", "Product_Category"}]

\* df.rename(columns={col: standard_name}): every column bearing that label
RenameColumn(cols, col, standard_name) ==
    [i \in DOMAIN cols |-> IF cols[i] = col THEN standard_name ELSE cols[i]]

\* the inner loop: the first column, in header order, that is a known variation
FirstMatchLast(cols, variations) ==
    LET hits == {i \in DOMAIN cols : cols[i] \in variations}
    IN  IF hits = {} THEN 0 ELSE CHOOSE i \in hits : \A j \in hits : j <= i

FirstMatch(cols, variations) ==
    LET hits == {i \in DOMAIN cols : cols[i] \in variations}
    IN  IF hits = {} THEN 0 ELSE CHOOSE i \in hits : \A j \in hits : i <= j

RECURSIVE DetectColumns(_, _)
\* the outer loop over column_mapping.items(), from the k-th standard name on
DetectColumns(cols, k) ==
    IF k > Len(required_cols) THEN cols
    ELSE LET standard_name == required_cols[k]
             m == FirstMatch(cols, column_mapping[standard_name])
         IN  DetectColumns(IF m = 0 THEN cols
                           ELSE RenameColumn(cols, cols[m], standard_name),
                           k + 1)

ResolvedColumns(headers) ==
    DetectColumns([i \in DOMAIN headers |-> StandardizeHeader(headers[i])], 1)

missing_cols_or_all(cols) ==
    IF \A c \in Range(required_cols) : c \in Range(cols) THEN <<>> ELSE required_cols

\* [col for col in required_cols if col not in df.columns]
missing_cols(cols) ==
    SelectSeq(required_cols, LAMBDA c : c \notin Range(cols))

\* df[name] is a Series only when exactly one column bears the label; with two,
\* it is a DataFrame and pd.to_numeric / .str raise inside the try block
Ambiguous(cols) ==
    \E c \in Range(required_cols) :
        Cardinality({i \in DOMAIN cols : cols[i] = c}) > 1

ColumnIndex(cols, name) == CHOOSE i \in DOMAIN cols : cols[i] = name

----------------------------------------------------------------------------
(* Helpers standing for pandas / Python primitives *)

\* Python's ordering of the text labels the model uses (sorted(), groupby keys, mode()[0])
LabelOrder == <<"Bike", "Food", "High", "Low", "Rainy", "Rural", "Sunny",
                "Toys", "Unknown", "Urban", "Van">>

LabelRanks == [s \in Range(LabelOrder) |-> CHOOSE i \in DOMAIN LabelOrder : LabelOrder[i] = s]

LabelRank(s) == LabelRanks[s]

\* a stable sort: after[i, j] says that s[i] must come strictly after s[j];
\* elements neither of which must come after the other keep their order
SortStable(s, after) ==
    LET pos(i) == 1 + Cardinality({j \in DOMAIN s : after[i, j]})
                    + Cardinality({j \in DOMAIN s : j < i /\ ~after[i, j] /\ ~after[j, i]})
    IN  [k \in DOMAIN s |-> s[CHOOSE i \in DOMAIN s : pos(i) = k]]

\* sorted(...) on a set of text labels, all of them in LabelOrder
SortedLabels(S) == SelectSeq(LabelOrder, LAMBDA s : s \in S)

RECURSIVE SumSeq(_)
SumSeq(s) == IF s = <<>> THEN 0 ELSE Head(s) + SumSeq(Tail(s))

Column(d, f) == [i \in DOMAIN d |-> d[i][f]]

\* Series.isnull() on a numeric and on a text column
IsNullNum(v) == v = NaN
IsNullText(v) == v = NA

\* Series.median(): NaN values are skipped; NaN when nothing is left
Median(col) ==
    LET present == SelectSeq(col, LAMBDA v : ~IsNullNum(v))
        sorted  == SortStable(present, [i \in DOMAIN present, j \in DOMAIN present |->
                                            present[i] > present[j]])
        n       == Len(sorted)
    IN  IF n = 0 THEN NaN
        ELSE IF n % 2 = 1 THEN sorted[(n + 1) \div 2]
        ELSE (sorted[n \div 2] + sorted[n \div 2 + 1]) \div 2

\* Series.mode(): the most frequent non-missing values, sorted; empty when all are missing
Mode(col) ==
    LET present  == {v \in Range(col) : ~IsNullText(v)}
        count(v) == Cardinality({i \in DOMAIN col : col[i] = v})
        top      == {v \in present : \A w \in present : count(w) <= count(v)}
    IN  SortedLabels(top)

----------------------------------------------------------------------------
(* Cleaning: lines 104-133 *)

\* pd.to_numeric(errors='coerce')
ToNumeric(v) == IF v = BadText THEN NaN ELSE v

\* .astype(str): a missing cell becomes the text 'nan'
AsStr(v) == IF v = NA THEN "nan" ELSE v

\* .str.strip().str.title() on the texts the model uses
StripTitle(s) ==
    CASE s = " rainy " -> "Rainy"
      [] s = "SUNNY"   -> "Sunny"
      [] s = "low"     -> "Low"
      [] s = "van "    -> "Van"
      [] s = "nan"     -> "Nan"
      [] s = "NaN"     -> "Nan"
      [] OTHER         -> s

\* .replace('Nan', np.nan)
ReplaceNan(s) == IF s = "Nan" THEN NA ELSE s

IsNumericCol(f) == f \in {"delivery_time", "agent_age", "agent_rating"}

ConvertRowReplaceFirst(r) ==
    [f \in DOMAIN r |->
        IF IsNumericCol(f) THEN ToNumeric(r[f])
        ELSE StripTitle(ReplaceNan(AsStr(r[f])))]

\* lines 105-115 on one row
ConvertRow(r) ==
    [f \in DOMAIN r |->
        IF IsNumericCol(f) THEN ToNumeric(r[f])
        ELSE ReplaceNan(StripTitle(AsStr(r[f])))]

\* df.dropna(subset=['delivery_time'])
DropMissingTime(d) == SelectSeq(d, LAMBDA r : ~IsNullNum(r["delivery_time"]))

\* Series.fillna(v) on column f, whose missing cells hold null
FillColumn(d, f, v, null) ==
    [i \in DOMAIN d |-> IF d[i][f] = null THEN [d[i] EXCEPT ![f] = v] ELSE d[i]]

\* df[f].isnull().sum() > 0
AnyNull(d, f, null) == \E i \in DOMAIN d : d[i][f] = null

\* lines 121-124: fillna(median) when the column has a missing value
FillMedian(d, f) ==
    IF AnyNull(d, f, NaN) THEN FillColumn(d, f, Median(Column(d, f)), NaN)
    ELSE d

FillModeNoUnknown(d, f) ==
    IF AnyNull(d, f, NA) /\ Len(Mode(Column(d, f))) > 0
    THEN FillColumn(d, f, Mode(Column(d, f))[1], NA)
    ELSE d

\* lines 127-133: fillna(mode()[0]), or 'Unknown' when there is no mode
FillMode(d, f) ==
    IF AnyNull(d, f, NA)
    THEN LET mode_val == Mode(Column(d, f))
         IN  IF Len(mode_val) > 0 THEN FillColumn(d, f, mode_val[1], NA)
             ELSE FillColumn(d, f, "Unknown", NA)
    ELSE d

RECURSIVE FillModes(_, _)
FillModes(d, k) ==
    IF k > Len(categorical_cols) THEN d
    ELSE FillModes(FillMode(d, categorical_cols[k]), k + 1)

Clean(d) ==
    LET converted == [i \in DOMAIN d |-> ConvertRow(d[i])]
        kept      == DropMissingTime(converted)
    IN  FillModes(FillMedian(FillMedian(kept, "agent_age"), "agent_rating"), 1)

----------------------------------------------------------------------------
(* Derived metrics: lines 135-152 *)

\* mean_time + std_time, kept exact as the count, the sum and the sum of squares
\* of delivery_time.  Series.std() is the sample deviation (ddof=1): it is NaN,
\* and with it the threshold, when there are fewer than two records.
Threshold(d) ==
    LET t == Column(d, "delivery_time")
    IN  [n     |-> Len(t),
         sum   |-> SumSeq(t),
         sumsq |-> SumSeq([i \in DOMAIN t |-> t[i] * t[i]])]

ThresholdIsNaN(t) == t.n < 2

ExceedsOrEquals(v, t) ==
    /\ ~ThresholdIsNaN(t)
    /\ t.n * v >= t.sum
    /\ (t.n - 1) * (t.n * v - t.sum) * (t.n * v - t.sum)
          >= t.n * (t.n * t.sumsq - t.sum * t.sum)

\* delivery_time > threshold; a comparison with NaN is False.
\* v > sum/n + sqrt((n*sumsq - sum^2) / (n*(n-1))), cleared of the root
Exceeds(v, t) ==
    /\ ~ThresholdIsNaN(t)
    /\ t.n * v > t.sum
    /\ (t.n - 1) * (t.n * v - t.sum) * (t.n * v - t.sum)
          > t.n * (t.n * t.sumsq - t.sum * t.sum)

\* pd.cut(bins=[0, 25, 40, 100]): right-closed intervals, NaN outside them
age_group(a) ==
    IF 0 < a /\ a <= 25 THEN "<25"
    ELSE IF 25 < a /\ a <= 40 THEN "25-40"
    ELSE IF 40 < a /\ a <= 100 THEN "40+"
    ELSE NA

\* pd.cut(bins=[0, 20, 30, 40, np.inf])
time_category(v) ==
    IF 0 < v /\ v <= 20 THEN "Very Fast (<20)"
    ELSE IF 20 < v /\ v <= 30 THEN "Fast (20-30)"
    ELSE IF 30 < v /\ v <= 40 THEN "Average (30-40)"
    ELSE IF 40 < v THEN "Slow (>40)"
    ELSE NA

Derive(d) ==
    LET threshold == Threshold(d)
    IN  [i \in DOMAIN d |->
            [delivery_time |-> d[i]["delivery_time"],
             traffic       |-> d[i]["traffic"],
             weather       |-> d[i]["weather"],
             vehicle       |-> d[i]["vehicle"],
             agent_age     |-> d[i]["agent_age"],
             agent_rating  |-> d[i]["agent_rating"],
             area          |-> d[i]["area"],
             category      |-> d[i]["category"],
             is_late       |-> IF Exceeds(d[i]["delivery_time"], threshold) THEN 1 ELSE 0,
             age_group     |-> age_group(d[i]["agent_age"]),
             time_category |-> time_category(d[i]["delivery_time"])]]

----------------------------------------------------------------------------
(* load_and_clean_data: lines 59-163 *)

NoError == [kind |-> "none", missing |-> <<>>, available |-> <<>>]

\* the rows under their resolved column labels
Extract(cols, rows) ==
    [i \in DOMAIN rows |->
        [f \in Range(required_cols) |-> rows[i][ColumnIndex(cols, f)]]]

\* What the loader does with the file: it returns (df, shapes, threshold), or it
\* reports with st.error and ends the script run with st.stop.
load_and_clean_data(file) ==
    IF ~file.exists
    THEN [ok |-> FALSE,
          error |-> [kind |-> "file_not_found", missing |-> <<>>, available |-> <<>>]]
    ELSE LET cols == ResolvedColumns(file.headers)
         IN  IF missing_cols(cols) # <<>>
             THEN [ok |-> FALSE,
                   error |-> [kind |-> "missing_columns",
                              missing |-> missing_cols(cols),
                              available |-> cols]]
             ELSE IF Ambiguous(cols)
             THEN [ok |-> FALSE,
                   error |-> [kind |-> "exception", missing |-> <<>>, available |-> <<>>]]
             ELSE LET cleaned == Clean(Extract(cols, file.rows))
                  IN  [ok        |-> TRUE,
                       error     |-> NoError,
                       df        |-> Derive(cleaned),
                       threshold |-> Threshold(cleaned),
                       shapes    |-> <<Len(file.rows), Len(cleaned)>>]

----------------------------------------------------------------------------
(* main: sidebar filters, lines 457-511 *)

\* the widgets in the order main() reads them and applies their filters
filter_dims == <<"weather", "traffic", "vehicle", "area", "category">>

\* sorted(df[dim].unique().tolist())
Options(d, dim) == SortedLabels(Range(Column(d, dim)))

\* a multiselect's default: every option
DefaultSelection(d) == [dim \in Range(filter_dims) |-> Range(Options(d, dim))]

ApplyFilterFromCache(d, dim, sel) ==
    IF sel # {} THEN SelectSeq(df, LAMBDA r : r[dim] \in sel) ELSE d

ApplyFilterAlways(d, dim, sel) == SelectSeq(d, LAMBDA r : r[dim] \in sel)

\* if selected_x: df_filtered = df_filtered[df_filtered[x].isin(selected_x)]
ApplyFilter(d, dim, sel) ==
    IF sel # {} THEN SelectSeq(d, LAMBDA r : r[dim] \in sel) ELSE d

RECURSIVE FilterFrom(_, _, _)
FilterFrom(d, sel, k) ==
    IF k > Len(filter_dims) THEN d
    ELSE FilterFrom(ApplyFilter(d, filter_dims[k], sel[filter_dims[k]]), sel, k + 1)

FilteredWithoutWeather(d, sel) == FilterFrom(d, sel, 2)

\* lines 500-511
Filtered(d, sel) == FilterFrom(d, sel, 1)

----------------------------------------------------------------------------
(* main: KPIs, lines 516-549 *)

\* Series.mean() as the pair (sum, n); n = 0 is the NaN of an empty column
Mean(col) == [sum |-> SumSeq(col), n |-> Len(col)]

\* f"{x:.<digits>f}" with scale = 10^digits: 'nan' for NaN, else the value in
\* units of 1/scale, rounded to nearest with ties to even (times is the factor
\* applied to the mean beforehand, 100 for a percentage)
Format(m, times, scale) ==
    IF m.n = 0 THEN [nan |-> TRUE, digits |-> 0]
    ELSE LET num == m.sum * times * scale
             q   == num \div m.n
             r   == num % m.n
         IN  [nan    |-> FALSE,
              digits |-> IF 2 * r > m.n THEN q + 1
                         ELSE IF 2 * r < m.n THEN q
                         ELSE IF q % 2 = 0 THEN q ELSE q + 1]

Metrics(d) ==
    [avg_time         |-> Format(Mean(Column(d, "delivery_time")), 1, 10),
     late_pct         |-> Format(Mean(Column(d, "is_late")), 100, 10),
     total_deliveries |-> Len(d),
     avg_rating       |-> Format(Mean(Column(d, "agent_rating")), 1, 100)]

----------------------------------------------------------------------------
(* Aggregates: lines 172-186, 257-262, 429-430, 612-641 *)

GroupKeysKnown(d, dim) == SortedLabels(Range(Column(d, dim)) \ {NA, "Unknown"})

\* groupby(dim): the keys present, ascending; missing keys are dropped
GroupKeys(d, dim) == SortedLabels(Range(Column(d, dim)) \ {NA})

\* groupby(dim).agg(mean of delivery_time, mean of is_late) and .size(), one row
\* per key; a mean is time_sum / n, the late share late_sum / n
GroupBy(d, dim) ==
    LET keys == GroupKeys(d, dim)
    IN  [k \in DOMAIN keys |->
            LET members == SelectSeq(d, LAMBDA r : r[dim] = keys[k])
            IN  [key      |-> keys[k],
                 n        |-> Len(members),
                 time_sum |-> SumSeq(Column(members, "delivery_time")),
                 late_sum |-> SumSeq(Column(members, "is_late"))]]

\* the groupby table of every dimension; main() computes one wherever it needs
\* it, always from the same df_filtered
Grouped(d) ==
    [weather  |-> GroupBy(d, "weather"),
     traffic  |-> GroupBy(d, "traffic"),
     vehicle  |-> GroupBy(d, "vehicle"),
     area     |-> GroupBy(d, "area"),
     category |-> GroupBy(d, "category")]

\* a.delivery_time < b.delivery_time for two rows of an aggregate
MeanLess(a, b) == a.time_sum * b.n < b.time_sum * a.n

SortByMeanAscending(rows) ==
    SortStable(rows, [i \in DOMAIN rows, j \in DOMAIN rows |-> MeanLess(rows[j], rows[i])])

Unsorted(rows) == rows

\* sort_values('delivery_time', ascending=False)
SortByMeanDescending(rows) ==
    SortStable(rows, [i \in DOMAIN rows, j \in DOMAIN rows |-> MeanLess(rows[i], rows[j])])

SortByCountDescending(rows) ==
    SortStable(rows, [i \in DOMAIN rows, j \in DOMAIN rows |-> rows[i].n < rows[j].n])

\* create_delay_analyzer
weather_agg(g) == SortByMeanDescending(g["weather"])
traffic_agg(g) == SortByMeanDescending(g["traffic"])

\* create_vehicle_comparison: sort_values('delivery_time')
vehicle_agg(g) == SortByMeanAscending(g["vehicle"])

\* create_agent_count_by_area: sort_values('count', ascending=False)
agent_count(g) == SortByCountDescending(g["area"])

\* Series.value_counts(): one count per value present, largest first
value_counts(g, dim) == SortByCountDescending(g[dim])

Charts(g) ==
    [weather_agg  |-> weather_agg(g),
     traffic_agg  |-> traffic_agg(g),
     vehicle_agg  |-> vehicle_agg(g),
     agent_count  |-> agent_count(g),
     value_counts |-> [dim \in Range(filter_dims) |-> value_counts(g, dim)]]

----------------------------------------------------------------------------
(* Export: lines 612-650 *)

export_dims_weather_first == <<"weather", "traffic", "vehicle", "area", "category">>

\* the keys of export_data in insertion order, without the 'by_' prefix
export_dims == <<"traffic", "weather", "vehicle", "area", "category">>

GroupLabel(dim) ==
    CASE dim = "traffic"  -> "by_traffic"
      [] dim = "weather"  -> "by_weather"
      [] dim = "vehicle"  -> "by_vehicle"
      [] dim = "area"     -> "by_area"
      [] dim = "category" -> "by_category"

\* the columns of all_df: the index levels, then the union of the tables'
\* columns in order of first appearance
export_columns == <<"group", "level_1", "traffic", "avg_time", "late_pct",
                    "weather", "vehicle", "area", "category">>

\* one table of export_data as rows of all_df: its own dimension column holds
\* the key, the other dimension columns are NaN
ExportRows(g, dim) ==
    LET rows == g[dim]
    IN  [k \in DOMAIN rows |->
            [group    |-> GroupLabel(dim),
             level_1  |-> k - 1,
             traffic  |-> IF dim = "traffic" THEN rows[k].key ELSE NA,
             weather  |-> IF dim = "weather" THEN rows[k].key ELSE NA,
             vehicle  |-> IF dim = "vehicle" THEN rows[k].key ELSE NA,
             area     |-> IF dim = "area" THEN rows[k].key ELSE NA,
             category |-> IF dim = "category" THEN rows[k].key ELSE NA,
             avg_time |-> [sum |-> rows[k].time_sum, n |-> rows[k].n],
             late_pct |-> [sum |-> 100 * rows[k].late_sum, n |-> rows[k].n]]]

RECURSIVE ConcatFrom(_, _)
ConcatFrom(g, k) ==
    IF k > Len(export_dims) THEN <<>>
    ELSE ExportRows(g, export_dims[k]) \o ConcatFrom(g, k + 1)

\* pd.concat(export_data, names=['group']).reset_index()
Export(g) == ConcatFrom(g, 1)

----------------------------------------------------------------------------
(* The spreadsheets the model reads *)

\* most rows of a sheet with varied cells
MaxRows == 3
\* most rows of a sheet in which only delivery_time varies
MaxTimes == 5

canonical_headers == <<"Delivery_Time", "Traffic", "Weather", "Vehicle",
                       "Agent_Age", "Agent_Rating", "Area", "Category">>

\* rows under canonical_headers: clean ones, untidy text, missing and
\* unparseable cells
TimedRowPool ==
    { <<10, "Low", "Sunny", "Bike", 20, 40, "Urban", "Food">>,
      <<40, "High", " rainy ", "Van", 30, 50, "Rural", "Toys">>,
      <<100, NA, "SUNNY", "Bike", NaN, BadText, NA, "NaN">> }

\* the same, a row without delivery_time and a row whose agent_age is 0
RowPool ==
    TimedRowPool \cup { <<NaN, "low", "Rainy", "van ", 40, 46, "Urban", "Toys">>,
                        <<20, "High", "Sunny", "Van", 0, 46, "Rural", "Food">> }

TimePool == {10, 20, 30, 40, 100}

HeaderPool == {"Delivery Time", " Time ", "delivery_time", "DELIVERY_TIME",
               "Traffic Condition", "Agent Age ", "Age", "Location",
               "Order_ID", "category"}

SeqsUpTo(S, n) == UNION {[1..k -> S] : k \in 0..n}

Sheet(headers, rows) == [exists |-> TRUE, headers |-> headers, rows |-> rows]

NoSheet == [exists |-> FALSE, headers |-> <<>>, rows |-> <<>>]

\* sheets with the canonical headers and up to MaxRows varied rows
VariedSheets == {Sheet(canonical_headers, rows) : rows \in SeqsUpTo(RowPool, MaxRows)}

\* those of them in which every row has a delivery_time
KeptSheets == {Sheet(canonical_headers, rows) : rows \in SeqsUpTo(TimedRowPool, MaxRows)}

\* sheets in which only delivery_time varies
TimedSheets ==
    {Sheet(canonical_headers,
           [i \in DOMAIN t |-> <<t[i], "Low", "Sunny", "Bike", 20, 40, "Urban", "Food">>])
        : t \in SeqsUpTo(TimePool, MaxTimes) \ {<<>>}}

\* the cell under a column headed h: a number where the header resolves to a
\* numeric field, a label where it resolves to a text field
CellUnder(h, otherwise) ==
    LET std == StandardizeHeader(h)
    IN  IF std \in column_mapping["delivery_time"] \cup column_mapping["agent_age"]
                      \cup column_mapping["agent_rating"]
        THEN 40
        ELSE IF \E f \in Range(categorical_cols) : std \in column_mapping[f]
        THEN "Rural"
        ELSE otherwise

\* sheets that lack some of the canonical columns
TrimmedSheets ==
    LET row == <<10, "Low", "Sunny", "Bike", 20, 40, "Urban", "Food">>
        Keep(s, K) == SelectSeq([i \in DOMAIN s |-> <<i, s[i]>>], LAMBDA p : p[1] \in K)
        Kept(s, K) == [i \in DOMAIN Keep(s, K) |-> Keep(s, K)[i][2]]
    IN  {Sheet(Kept(canonical_headers, K), <<Kept(row, K)>>) :
            K \in SUBSET (DOMAIN canonical_headers) \ {DOMAIN canonical_headers}}

ReplacedHeaders ==
    LET row == <<10, "Low", "Sunny", "Bike", 20, 40, "Urban", "Food">>
    IN  {[headers |-> [canonical_headers EXCEPT ![i] = h],
          row     |-> [row EXCEPT ![i] = CellUnder(h, row[i])]] :
            i \in DOMAIN canonical_headers, h \in HeaderPool}

\* one-row sheets whose header row has one header replaced
ReplacedSheets == {Sheet(t.headers, <<t.row>>) : t \in ReplacedHeaders}

\* the same with one more column appended; read_excel renames a header that
\* repeats an earlier one, so the headers of a sheet are distinct
AppendedSheets ==
    UNION { {Sheet(Append(t.headers, h), <<Append(t.row, CellUnder(h, 7))>>) :
                h \in HeaderPool \ Range(t.headers)} : t \in ReplacedHeaders }

----------------------------------------------------------------------------
(* The script runs *)

NoMetrics ==
    [avg_time         |-> [nan |-> TRUE, digits |-> 0],
     late_pct         |-> [nan |-> TRUE, digits |-> 0],
     total_deliveries |-> 0,
     avg_rating       |-> [nan |-> TRUE, digits |-> 0]]

Blank ==
    /\ pc = "start"
    /\ error = NoError
    /\ df = <<>>
    /\ late_threshold = Threshold(<<>>)
    /\ shapes = <<0, 0>>
    /\ selected = [dim \in Range(filter_dims) |-> {}]
    /\ df_filtered = <<>>
    /\ kpi = NoMetrics
    /\ charts = Charts(Grouped(<<>>))
    /\ all_df = <<>>

df_after_run_in_place(d, filtered) == filtered

\* the frame the loader returned, as a run of main() leaves it: main() reads it
\* (unique(), copy()), the cascade starts from df.copy() and rebinds df_filtered
\* to the frame each boolean index returns, and the KPI, chart and export code
\* builds new frames (groupby, agg, reset_index, concat) from df_filtered
df_after_run(d, filtered) == d

\* everything main() computes from the cached dataset and the widgets' values
Render(d, sel) ==
    \E filtered \in {Filtered(d, sel)} :
       \E grouped \in {Grouped(filtered)} :
          /\ df' = df_after_run(d, filtered)
          /\ selected' = sel
          /\ df_filtered' = filtered
          /\ kpi' = Metrics(filtered)
          /\ charts' = Charts(grouped)
          /\ all_df' = Export(grouped)

\* the first run of main(): the loader returns and the widgets hold their defaults
FirstRun ==
    /\ pc = "start"
    /\ LET loaded == load_and_clean_data(raw)
       IN  /\ loaded.ok
           /\ late_threshold' = loaded.threshold
           /\ shapes' = loaded.shapes
           /\ Render(loaded.df, DefaultSelection(loaded.df))
    /\ pc' = "shown"
    /\ UNCHANGED <<raw, error>>

\* the first run of main(): the loader reports an error and stops the script
LoadStop ==
    /\ pc = "start"
    /\ LET loaded == load_and_clean_data(raw)
       IN  /\ ~loaded.ok
           /\ error' = loaded.error
    /\ pc' = "stopped"
    /\ UNCHANGED <<raw, df, late_threshold, shapes, selected, df_filtered,
                   kpi, charts, all_df>>

\* the user adds an option to one multiselect or removes one from it: main()
\* runs again on the cached dataset
Rerun ==
    /\ pc = "shown"
    /\ \E dim \in Range(filter_dims) :
         \E v \in Range(Options(df, dim)) :
            Render(df, [selected EXCEPT ![dim] =
                           IF v \in selected[dim] THEN selected[dim] \ {v}
                           ELSE selected[dim] \cup {v}])
    /\ UNCHANGED <<raw, pc, error, late_threshold, shapes>>

Init ==
    /\ Blank
    /\ raw \in KeptSheets \cup ReplacedSheets \cup TrimmedSheets \cup {NoSheet}

Next == FirstRun \/ LoadStop \/ Rerun

Spec == Init /\ [][Next]_vars

\* the loader alone, over more rows, more header rows and more delivery times
InitLoad ==
    /\ Blank
    /\ raw \in VariedSheets \cup ReplacedSheets \cup TrimmedSheets
                 \cup AppendedSheets \cup TimedSheets \cup {NoSheet}

NextLoad == FirstRun \/ LoadStop

SpecLoad == InitLoad /\ [][NextLoad]_vars

----------------------------------------------------------------------------
(* Properties *)

Shown == pc = "shown"

Times(d) == Column(d, "delivery_time")
Flags(d) == Column(d, "is_late")

Scenario == Shown /\ Times(df) = <<10, 20, 30, 40, 100>>

\* C1 (as amended): the threshold is the mean plus the sample standard deviation
\* of delivery_time over the cleaned dataset, and a record is flagged late exactly
\* when its delivery_time is strictly greater than it (never when the threshold is
\* undefined); for delivery_time = [10,20,30,40,100] the flags are [F,F,F,F,T] and
\* the late share is 20.0%.
C1_LateIffAboveMeanPlusStd ==
    Shown =>
        LET n == Len(df)
            S == SumSeq(Times(df))
            Q == SumSeq([i \in DOMAIN df |-> df[i].delivery_time * df[i].delivery_time])
        IN  /\ late_threshold = [n |-> n, sum |-> S, sumsq |-> Q]
            /\ \A i \in DOMAIN df :
                  /\ df[i].is_late \in {0, 1}
                  /\ df[i].is_late = 1 <=>
                        /\ n >= 2
                        /\ n * df[i].delivery_time > S
                        /\ (n - 1) * (n * df[i].delivery_time - S)
                                   * (n * df[i].delivery_time - S)
                              > n * (n * Q - S * S)
            /\ Scenario => /\ Flags(df) = <<0, 0, 0, 0, 1>>
                           /\ kpi.late_pct = [nan |-> FALSE, digits |-> 200]

C1_Witness == Scenario /\ \E i \in DOMAIN df : df[i].is_late = 1

\* C1 (as stated): with SLA = 35 the flag is true exactly when delivery_time > 35,
\* so [10,20,30,40,100] gives [F,F,F,T,T] and a delay rate of 40.0%.
C1_FixedSLA ==
    Scenario =>
        /\ \A i \in DOMAIN df : df[i].is_late = 1 <=> df[i].delivery_time > 35
        /\ Flags(df) = <<0, 0, 0, 1, 1>>
        /\ kpi.late_pct = [nan |-> FALSE, digits |-> 400]

AllowedBy(r, sel) == \A dim \in Range(filter_dims) : r[dim] \in sel[dim]

\* C2 (as amended): a record of the cleaned dataset is in the filtered dataset
\* exactly when, for each of the five dimensions, the allowed set is empty or
\* holds the record's value; agent_rating and agent_age are not filtered on.
C2_IncludedIffEveryNonEmptySetAllows ==
    Shown =>
        df_filtered =
            SelectSeq(df, LAMBDA r :
                \A dim \in Range(filter_dims) :
                    selected[dim] = {} \/ r[dim] \in selected[dim])

C2_Witness ==
    /\ Shown
    /\ \E a, b \in Range(filter_dims) :
          /\ selected[a] = {}
          /\ selected[b] # {}
          /\ selected[b] # Range(Options(df, b))
    /\ df_filtered # <<>>
    /\ Len(df_filtered) < Len(df)

\* C2 (as stated): a record is in the filtered dataset exactly when its value is
\* a member of the allowed set of every one of the five dimensions.
C2_Conjunction ==
    Shown => df_filtered = SelectSeq(df, LAMBDA r : AllowedBy(r, selected))

\* C3 (as amended): when the user empties the allowed set of a dimension, that
\* dimension filters nothing: the filtered dataset is the one the default
\* selection of that dimension (all observed values) gives, and with every
\* allowed set empty it is the whole cleaned dataset.
C3_EmptySelectionFiltersNothing ==
    Shown =>
        /\ \A dim \in Range(filter_dims) :
              selected[dim] = {} =>
                  df_filtered =
                      SelectSeq(df, LAMBDA r :
                          \A other \in Range(filter_dims) \ {dim} :
                              selected[other] = {} \/ r[other] \in selected[other])
        /\ (\A dim \in Range(filter_dims) : selected[dim] = {}) => df_filtered = df

C3_Witness ==
    /\ Shown
    /\ \E dim \in Range(filter_dims) : selected[dim] = {}
    /\ df_filtered = df
    /\ df # <<>>

\* C3 (as stated): an emptied allowed set excludes every record.
C3_EmptyExcludesAll ==
    Shown /\ (\E dim \in Range(filter_dims) : selected[dim] = {}) => df_filtered = <<>>


\* C4: whenever the loader returns a dataset, every record of it has a
\* non-missing value in each of the eight canonical fields.
C4_NoMissingValueAfterLoad ==
    Shown =>
        \A i \in DOMAIN df :
            \A f \in Range(required_cols) :
                IF IsNumericCol(f) THEN df[i][f] # NaN ELSE df[i][f] # NA

\* the fields of the header row that no column matches, exactly or by alias
Unresolved ==
    {f \in Range(required_cols) :
        \A i \in DOMAIN raw.headers :
            StandardizeHeader(raw.headers[i]) \notin column_mapping[f]}

NothingComputed ==
    /\ df = <<>>
    /\ df_filtered = <<>>
    /\ all_df = <<>>
    /\ kpi = NoMetrics
    /\ charts = Charts(Grouped(<<>>))
    /\ \A dim \in Range(filter_dims) : selected[dim] = {}

Counts(rows) == [k \in DOMAIN rows |-> rows[k].n]

CountedOnce(rows, dim) ==
    /\ SumSeq(Counts(rows)) = Len(df_filtered)
    /\ \A i \in DOMAIN df_filtered :
          Cardinality({k \in DOMAIN rows : rows[k].key = df_filtered[i][dim]}) = 1

\* C6: for any filtered dataset and any one dimension, the record counts of the
\* dimension's groups sum to the number of filtered records, each record being
\* counted in exactly one group.
C6_GroupCountsSumToTotal ==
    Shown =>
        /\ kpi.total_deliveries = Len(df_filtered)
        /\ \A dim \in Range(filter_dims) : CountedOnce(charts.value_counts[dim], dim)
        /\ CountedOnce(charts.agent_count, "area")
        /\ CountedOnce(charts.weather_agg, "weather")
        /\ CountedOnce(charts.traffic_agg, "traffic")
        /\ CountedOnce(charts.vehicle_agg, "vehicle")

C6_Witness ==
    /\ Shown
    /\ Len(df_filtered) >= 2
    /\ Len(df_filtered) < Len(df)
    /\ Len(charts.agent_count) >= 2
    /\ \E k \in DOMAIN charts.weather_agg : charts.weather_agg[k].n >= 2


\* the rows of all_df that one table of export_data contributed, as summary rows
ExportGroup(dim) ==
    LET rows == SelectSeq(all_df, LAMBDA r : r.group = GroupLabel(dim))
    IN  [k \in DOMAIN rows |->
            [key      |-> rows[k][dim],
             n        |-> rows[k].avg_time.n,
             time_sum |-> rows[k].avg_time.sum,
             late_sum |-> rows[k].late_pct.sum]]

Adjacent(rows, Ordered(_, _)) ==
    \A k \in DOMAIN rows : k < Len(rows) => Ordered(rows[k], rows[k + 1])

RateLess(a, b) == a.late_sum * b.n < b.late_sum * a.n

MeanDescending(rows) == Adjacent(rows, LAMBDA a, b : ~MeanLess(a, b))
MeanAscending(rows) == Adjacent(rows, LAMBDA a, b : ~MeanLess(b, a))
KeyAscending(rows) == Adjacent(rows, LAMBDA a, b : LabelRank(a.key) < LabelRank(b.key))

RateThenMeanDescending(rows) ==
    Adjacent(rows, LAMBDA a, b :
        \/ RateLess(b, a)
        \/ ~RateLess(a, b) /\ ~MeanLess(a, b))

\* the labels of all_df's rows, in row order
ExportLabels(t) ==
    [k \in DOMAIN t |-> <<t[k].group, t[k].traffic, t[k].weather, t[k].vehicle,
                          t[k].area, t[k].category>>]

\* C7 (as amended): the weather and traffic aggregates list their rows in
\* descending order of mean delivery time, the vehicle aggregate in ascending
\* order of mean delivery time, and each of the five exported by_* tables in
\* ascending order of the dimension value; the row order of the exported tables
\* is the same for every permutation of the filtered records.
C7_OrderOfSummaryRows ==
    Shown =>
        /\ MeanDescending(charts.weather_agg)
        /\ MeanDescending(charts.traffic_agg)
        /\ MeanAscending(charts.vehicle_agg)
        /\ \A dim \in Range(export_dims) : KeyAscending(ExportGroup(dim))
        /\ \A p \in Permutations(DOMAIN df_filtered) :
              ExportLabels(Export(Grouped([i \in DOMAIN df_filtered |-> df_filtered[p[i]]])))
                  = ExportLabels(all_df)

C7_Witness ==
    /\ Shown
    /\ Len(charts.weather_agg) >= 2
    /\ LabelRank(charts.weather_agg[2].key) < LabelRank(charts.weather_agg[1].key)
    /\ MeanLess(charts.weather_agg[2], charts.weather_agg[1])
    /\ Len(charts.vehicle_agg) >= 2
    /\ MeanLess(charts.vehicle_agg[1], charts.vehicle_agg[2])
    /\ Len(ExportGroup("vehicle")) >= 2

\* C7 (as stated): every per-dimension summary table lists its rows in
\* descending order of delay rate, ties broken by descending mean delivery time.
C7_RateThenMeanOrder ==
    Shown =>
        /\ RateThenMeanDescending(charts.weather_agg)
        /\ RateThenMeanDescending(charts.traffic_agg)
        /\ RateThenMeanDescending(charts.vehicle_agg)
        /\ \A dim \in Range(export_dims) : RateThenMeanDescending(ExportGroup(dim))

\* C8: when non-empty allowed sets jointly match no record, every summary is an
\* empty table and no KPI is a NaN formatted into the text shown to the user.
C8_EmptyFilterGivesSentinels ==
    /\ Shown
    /\ df # <<>>
    /\ df_filtered = <<>>
    /\ \A dim \in Range(filter_dims) : selected[dim] # {}
    =>
    /\ charts = Charts(Grouped(<<>>))
    /\ all_df = <<>>
    /\ ~kpi.avg_time.nan
    /\ ~kpi.late_pct.nan
    /\ ~kpi.avg_rating.nan


RawGroup(dim) == SelectSeq(all_df, LAMBDA r : r.group = GroupLabel(dim))

Members(dim, v) == SelectSeq(df_filtered, LAMBDA r : r[dim] = v)

\* C9 (as amended): the export is one flat table whose rows are the summary
\* rows of the five dimensions concatenated in the fixed order traffic, weather,
\* vehicle, area, category, each row carrying a 'group' label naming its source
\* table, with one row per (dimension, value) pair present in the filtered
\* data, each table's rows kept in its own order; the dimension value of a row
\* is held in the column named after its own dimension, the columns of the other
\* four dimensions being empty in that row, alongside avg_time and late_pct.
C9_ExportLayout ==
    Shown =>
        /\ all_df = RawGroup("traffic") \o RawGroup("weather") \o RawGroup("vehicle")
                       \o RawGroup("area") \o RawGroup("category")
        /\ \A dim \in Range(filter_dims) :
              LET rows == RawGroup(dim)
              IN  /\ [k \in DOMAIN rows |-> rows[k][dim]]
                        = SortedLabels(Range(Column(df_filtered, dim)))
                  /\ \A k \in DOMAIN rows :
                        /\ rows[k].level_1 = k - 1
                        /\ \A other \in Range(filter_dims) \ {dim} : rows[k][other] = NA
                        /\ rows[k].avg_time =
                              Mean(Column(Members(dim, rows[k][dim]), "delivery_time"))
                        /\ rows[k].late_pct.n = Len(Members(dim, rows[k][dim]))
                        /\ rows[k].late_pct.sum =
                              100 * SumSeq(Column(Members(dim, rows[k][dim]), "is_late"))

C9_Witness ==
    /\ Shown
    /\ Len(df_filtered) < Len(df)
    /\ Len(all_df) >= 7
    /\ \E k \in DOMAIN all_df : all_df[k].late_pct.sum > 0

\* C9 (as stated): the rows of all five dimensions hold their dimension value in
\* a single shared column.
C9_SharedValueColumn ==
    Shown => \E c \in Range(filter_dims) : \A k \in DOMAIN all_df : all_df[k][c] # NA

\* C10: applying the dimension filters in any order gives the same filtered
\* dataset: for any two of them, A then B yields the same records in the same
\* order as B then A, and the cascade of main() yields what the reverse cascade
\* yields.
C10_FiltersCommute ==
    Shown =>
        /\ \A a, b \in Range(filter_dims) :
              ApplyFilter(ApplyFilter(df, a, selected[a]), b, selected[b])
                  = ApplyFilter(ApplyFilter(df, b, selected[b]), a, selected[a])
        /\ df_filtered =
              ApplyFilter(ApplyFilter(ApplyFilter(ApplyFilter(ApplyFilter(df,
                  "category", selected["category"]),
                  "area", selected["area"]),
                  "vehicle", selected["vehicle"]),
                  "traffic", selected["traffic"]),
                  "weather", selected["weather"])

C10_Witness ==
    /\ Shown
    /\ \E a, b \in Range(filter_dims) :
          LET byA == ApplyFilter(df, a, selected[a])
              byB == ApplyFilter(df, b, selected[b])
          IN  /\ a # b
              /\ selected[a] # {}
              /\ selected[b] # {}
              /\ Len(byA) < Len(df)
              /\ Len(byB) < Len(df)
              /\ byA # byB
              /\ ApplyFilter(byA, b, selected[b]) # <<>>
              /\ ApplyFilter(byA, b, selected[b]) # byA

Canonical(d) == [i \in DOMAIN d |-> [f \in Range(required_cols) |-> d[i][f]]]

\* C12: the cleaning steps (numeric coercion, strip and title case with 'Nan'
\* as missing, dropping records without delivery_time, median and mode
\* imputation) applied to the canonical columns of the dataset they produced
\* return it as it is: no record is dropped and no field value changes.
C12_CleaningIsIdempotent ==
    Shown => Clean(Canonical(df)) = Canonical(df)

\* the first cleaning dropped a record, coerced an unparseable number, tidied a
\* label and filled missing numbers and labels
C12_Witness ==
    /\ Shown
    /\ raw.headers = canonical_headers
    /\ shapes[2] < shapes[1]
    /\ Len(df) >= 2
    /\ \E i \in DOMAIN raw.rows :
          /\ raw.rows[i][1] # NaN
          /\ raw.rows[i][2] = NA
          /\ raw.rows[i][5] = NaN
          /\ raw.rows[i][6] = BadText
          /\ raw.rows[i][8] = "NaN"
    /\ \E i \in DOMAIN raw.rows : raw.rows[i][1] # NaN /\ raw.rows[i][3] = " rainy "
    /\ \A i \in DOMAIN df :
          /\ df[i]["agent_age"] # NaN
          /\ df[i]["agent_rating"] # NaN
          /\ \A f \in Range(categorical_cols) : df[i][f] \in Range(LabelOrder) \ {"Unknown"}

\* the columns of the sheet, by position, whose normalised header is a known
\* variation of the canonical field f
Candidates(f) ==
    {i \in DOMAIN raw.headers : StandardizeHeader(raw.headers[i]) \in column_mapping[f]}

FirstCandidate(f) == CHOOSE i \in Candidates(f) : \A j \in Candidates(f) : i <= j

\* C13 (as stated): when every canonical field has a matching column and some
\* field has two or more, the field is mapped to the first matching column in
\* header order, exactly one column bears each canonical name, and the load
\* succeeds with the values of that column.
C13_FirstMatchWinsAndLoads ==
    ( /\ pc # "start"
      /\ raw.exists
      /\ Unresolved = {}
      /\ \E f \in Range(required_cols) : Cardinality(Candidates(f)) >= 2 )
    => /\ Shown
       /\ \A f \in Range(required_cols) :
             {i \in DOMAIN raw.headers : ResolvedColumns(raw.headers)[i] = f}
                 = {FirstCandidate(f)}
       /\ Times(df) = [i \in DOMAIN raw.rows |-> raw.rows[i][FirstCandidate("delivery_time")]]

\* C14 (as stated): every record of the derived dataset with agent_age >= 0 has
\* one of the three age labels, never a missing one, and the buckets are
\* right-open: ages below 25 (0 included) are '<25', ages from 25 up to but not
\* including 40 are '25-40', ages from 40 on are '40+'.
C14_AgeBucketsRightOpen ==
    Shown =>
        \A i \in DOMAIN df :
            LET a == df[i]["agent_age"]
            IN  a >= 0 =>
                  /\ df[i]["age_group"] \in {"<25", "25-40", "40+"}
                  /\ df[i]["age_group"] = IF a < 25 THEN "<25"
                                          ELSE IF a < 40 THEN "25-40"
                                          ELSE "40+"

====
